---- MODULE Spec2Model ----
(***************************************************************************)
(* Model of the container provisioning script (scripts/create_container.py) *)
(* and of the stats collector (scripts/monitor.py).                         *)
(*                                                                          *)
(* The provisioning part is a state machine whose steps are the external    *)
(* commands the script issues, one blocking command per step, against the   *)
(* shared state of the container runtime, the host network namespace and    *)
(* the filesystem.  The stats collector is a function of the listing the    *)
(* runtime client returns; it is modelled call by call.                     *)
(***************************************************************************)
EXTENDS Integers, Sequences, FiniteSets, TLC

VARIABLES
    networks,      \* runtime: set of [name, subnet] of the existing networks
    iface,         \* host: the docknet0 interface [exists, addrs, up]
    containers,    \* runtime: set of instance records
    images,        \* runtime: set of image tags built
    dirs,          \* filesystem: set of web-root directories created
    pc,            \* per process: position in create_container / create_docker_network
    inp,           \* per process: the operator's input of the current call
    log,           \* per process: commands issued by the current call, in order
    result,        \* per process: how the last call ended
    callId,        \* per process: number of the current (or last) call
    atStart,       \* per process: [net, name] did the network / instance exist when the call began
    prev,          \* summary of the call before the current one (network name, subnet, commands)
    calls,         \* number of calls started so far
    report,        \* per process: the summary create_container printed last
    mon            \* stats collector: listing given, rows returned, stats queries made

vars == <<networks, iface, containers, images, dirs, pc, inp, log, result,
          callId, atStart, prev, calls, report, mon>>

envVars == <<networks, iface, containers, images, dirs>>

----------------------------------------------------------------------------
(* Bounds of the model *)

MaxCalls == 2          \* number of calls of the provisioning script in one run

Procs == {1, 2}        \* provisioning processes that exist
SeqProcs == {1}        \* the one operator of the sequential specification

----------------------------------------------------------------------------
(* Plan catalog: create_container.py lines 20-25 *)

PlanNames == {"vStart", "vProfessional", "vPopular", "vStable"}

PLANS ==
    [ n \in PlanNames |->
        CASE n = "vStart"        -> [cpu |-> "1", mem |-> "4g",  dockerfile |-> "Dockerfile.vStart"]
          [] n = "vProfessional" -> [cpu |-> "2", mem |-> "8g",  dockerfile |-> "Dockerfile.vProfessional"]
          [] n = "vPopular"      -> [cpu |-> "4", mem |-> "16g", dockerfile |-> "Dockerfile.vPopular"]
          [] n = "vStable"       -> [cpu |-> "8", mem |-> "32g", dockerfile |-> "Dockerfile.vStable"] ]

(* plan.lower() of line 47, on the plan names the model uses *)
Lower(plan) ==
    CASE plan = "vStart"        -> "vstart"
      [] plan = "vProfessional" -> "vprofessional"
      [] plan = "vPopular"      -> "vpopular"
      [] plan = "vStable"       -> "vstable"
      [] OTHER                  -> plan

ImageTag(plan) == <<"hosting", Lower(plan)>>

PlanInCatalogAnyCase(plan) == Lower(plan) \in {Lower(n) : n \in DOMAIN PLANS}

(* "plan in PLANS" of line 129: membership in the dictionary's keys *)
PlanInCatalog(plan) == plan \in DOMAIN PLANS

----------------------------------------------------------------------------
(* Inputs the operator may type *)

PlanInputs   == {"vStart", "vStable", "vstart"}
NameInputs   == {"web1", "web2"}
CredInputs   == {"credsA"}             \* domain, user and database credentials, as one value
NetInputs    == {"hosting_net", "net2"}

NoSubnet == << >>
SubnetA  == <<45, 59, 132, 208, 28>>     \* 45.59.132.208/28
SubnetB  == <<10, 0, 5, 16, 28>>         \* 10.0.5.16/28
SubnetInputs == {NoSubnet, SubnetA, SubnetB}

(* Gateway address derived from a subnet: lines 57-58.                     *)
(* split("/")[0].rsplit(".", 1)[0] keeps the first three octets; ".1/28"   *)
(* is appended whatever the subnet's own prefix length.                     *)
GatewayOf(subnet) == <<subnet[1], subnet[2], subnet[3], 1, 28>>

(* random_port(start, end), lines 28-30: any port of the closed range; the *)
(* model draws the two ends of the range.                                   *)
random_port(start, end) == {start, end}

WebDir(cname) == <<"srv", cname, "www">>

----------------------------------------------------------------------------
run_command_swallow(ok) == "return"

(* Command Executor: run_command, lines 33-42.                              *)
(* subprocess.run(..., check=True) raises on a non-zero exit.  The except   *)
(* clause names subprocess.CalledCalledProcessError, which does not exist,  *)
(* so evaluating it raises AttributeError in place of the original error:   *)
(* either way an exception leaves run_command and nothing is returned.      *)
run_command(ok) == IF ok THEN "return" ELSE "raise"

NetworkLsStdoutEmpty(ok, name) == {}

(* stdout of "docker network ls --filter name=^NAME$ -q", line 77: run with *)
(* subprocess.run without check, so a failed query yields empty output and  *)
(* no exception.                                                            *)
NetworkLsStdout(ok, name) ==
    IF ok THEN {n \in networks : n.name = name} ELSE {}

(* stdout of "docker ps -a --filter name=^NAME$ -q", line 95: as above *)
PsStdout(ok, name) ==
    IF ok THEN {c \in containers : c.name = name} ELSE {}

(* Exit statuses of an existence query the model follows.  The script     *)
(* reads only the query's stdout, which is empty both when the query fails  *)
(* and when nothing matches, so a failed query is followed where it differs *)
(* from a successful one: when the resource exists.                         *)
QueryOutcomes(present) == IF present THEN BOOLEAN ELSE {TRUE}

(* Return code of "ip addr show docknet0", line 61: non-zero when the      *)
(* device does not exist.                                                   *)
IpAddrShowOk == iface.exists

ContainerSpecFixedPlan(i, id, ports) ==
    [ id     |-> id,
      name   |-> i.cname,
      cpus   |-> PLANS["vStart"].cpu,
      memory |-> PLANS["vStart"].mem,
      net    |-> i.net,
      volume |-> <<"srv", i.cname, "www">>,
      creds  |-> i.creds,
      ports  |-> ports,
      image  |-> <<"hosting", "vstart">> ]

(* The instance a "docker run" of lines 155-174 creates *)
ContainerSpec(i, id, ports) ==
    [ id     |-> id,
      name   |-> i.cname,
      cpus   |-> PLANS[i.plan].cpu,
      memory |-> PLANS[i.plan].mem,
      net    |-> i.net,
      volume |-> WebDir(i.cname),
      creds  |-> i.creds,
      ports  |-> ports,
      image  |-> ImageTag(i.plan) ]

(* The summary printed at lines 179-205 *)
Report(i, id, ports) ==
    [ container_id |-> id, plan |-> i.plan, cname |-> i.cname, net |-> i.net,
      creds |-> i.creds, web_dir |-> WebDir(i.cname), ports |-> ports ]

NoReport == [ container_id |-> 0, plan |-> "", cname |-> "", net |-> "",
              creds |-> "", web_dir |-> << >>, ports |-> << >> ]

(* The four ports drawn at lines 147-150, each from its own range.  The    *)
(* model samples the draws in which every port is the low end of its range  *)
(* and those in which every port is the high end.                           *)
PortDraws ==
    { <<h, s, sh, m>> : h  \in random_port(20000, 30000),
                        s  \in random_port(30001, 40000),
                        sh \in random_port(40001, 50000),
                        m  \in random_port(50001, 60000) }
      \cap { <<20000, 30001, 40001, 50001>>, <<30000, 40000, 50000, 60000>> }

----------------------------------------------------------------------------
(* Bookkeeping shared by the steps *)

Entry(cmd, ok, exec) == [cmd |-> cmd, ok |-> ok, exec |-> exec]

Issue(p, cmd, ok, exec) == log' = [log EXCEPT ![p] = Append(@, Entry(cmd, ok, exec))]

Goto(p, l) == pc' = [pc EXCEPT ![p] = l]

Ends(p, r) == /\ pc' = [pc EXCEPT ![p] = "idle"]
              /\ result' = [result EXCEPT ![p] = r]

Issued(p) == {log[p][k].cmd : k \in 1..Len(log[p])}

NoInput == [op |-> "none", plan |-> "", cname |-> "", creds |-> "",
            subnet |-> NoSubnet, net |-> ""]

CreationCmds == {"ip_link_add", "ip_addr_add", "ip_link_set_up", "docker_network_create"}

NoPrev == [net |-> "", subnet |-> NoSubnet, cmds |-> {}, returned |-> FALSE, some |-> FALSE]

(* The latest completed call of create_docker_network: its arguments, the  *)
(* creation commands it issued and whether it returned (no command of it    *)
(* raised).  A call of create_container that ended before line 141 made no  *)
(* such call.                                                               *)
Summary(p) ==
    IF "docker_network_ls" \in Issued(p)
    THEN [net |-> inp[p].net, subnet |-> inp[p].subnet,
          cmds |-> Issued(p) \cap CreationCmds,
          returned |-> \A k \in 1..Len(log[p]) :
                          log[p][k].cmd \in CreationCmds => log[p][k].ok,
          some |-> TRUE]
    ELSE prev

NoMon == [state |-> "off", client |-> FALSE, rt |-> << >>, all |-> FALSE,
          rows |-> << >>, queried |-> << >>, errors |-> << >>]

Begin(p, i) ==
    /\ pc[p] = "idle"
    /\ calls < MaxCalls
    /\ calls' = calls + 1
    /\ callId' = [callId EXCEPT ![p] = calls + 1]
    /\ inp' = [inp EXCEPT ![p] = i]
    /\ log' = [log EXCEPT ![p] = << >>]
    /\ prev' = Summary(p)
    /\ atStart' = [atStart EXCEPT ![p] =
                      [net  |-> \E n \in networks : n.name = i.net,
                       name |-> \E c \in containers : c.name = i.cname]]

NetworkDoneSkipRemoval(p) ==
    IF inp[p].op = "launch"
    THEN Goto(p, "run") /\ UNCHANGED result
    ELSE Ends(p, "provisioned")

(* Where control goes when create_docker_network returns *)
NetworkDone(p) ==
    IF inp[p].op = "launch"
    THEN Goto(p, "ps") /\ UNCHANGED result
    ELSE Ends(p, "provisioned")

----------------------------------------------------------------------------
(* create_container, lines 106-131: read the inputs, check the plan *)
Launch(p) ==
    \E plan \in PlanInputs, cname \in NameInputs, creds \in CredInputs,
       subnet \in SubnetInputs, net \in NetInputs :
        /\ Begin(p, [op |-> "launch", plan |-> plan, cname |-> cname, creds |-> creds,
                     subnet |-> subnet, net |-> net])
        /\ IF PlanInCatalog(plan)
           THEN /\ pc' = [pc EXCEPT ![p] = "build"]
                /\ result' = [result EXCEPT ![p] = "running"]
           ELSE Ends(p, "invalid_plan")
        /\ UNCHANGED <<envVars, report, mon>>

(* A direct call of create_docker_network(network_name, subnet_cidr), line 74 *)
Provision(p) ==
    \E subnet \in SubnetInputs, net \in NetInputs :
        /\ Begin(p, [op |-> "provision", plan |-> "", cname |-> "", creds |-> "",
                     subnet |-> subnet, net |-> net])
        /\ pc' = [pc EXCEPT ![p] = "net_ls"]
        /\ result' = [result EXCEPT ![p] = "running"]
        /\ UNCHANGED <<envVars, report, mon>>

(* build_image, lines 45-51 (called at line 134) *)
BuildImage(p) ==
    /\ pc[p] = "build"
    /\ \E ok \in BOOLEAN :
        /\ Issue(p, "docker_build", ok, TRUE)
        /\ images' = IF ok THEN images \cup {ImageTag(inp[p].plan)} ELSE images
        /\ IF run_command(ok) = "return"
           THEN Goto(p, "mkdir") /\ UNCHANGED result
           ELSE Ends(p, "failed")
    /\ UNCHANGED <<networks, iface, containers, dirs, inp, callId, atStart, prev, calls, report, mon>>

(* os.makedirs(web_dir, exist_ok=True), lines 137-138 *)
MakeDirs(p) ==
    /\ pc[p] = "mkdir"
    /\ \E ok \in BOOLEAN :
        /\ Issue(p, "makedirs", ok, FALSE)
        /\ dirs' = IF ok THEN dirs \cup {WebDir(inp[p].cname)} ELSE dirs
        /\ IF ok
           THEN Goto(p, "net_ls") /\ UNCHANGED result
           ELSE Ends(p, "failed")
    /\ UNCHANGED <<networks, iface, containers, images, inp, callId, atStart, prev, calls, report, mon>>

(* create_docker_network, lines 77-78 and 85-86: the existence query *)
NetworkLs(p) ==
    /\ pc[p] = "net_ls"
    /\ \E ok \in QueryOutcomes(\E n \in networks : n.name = inp[p].net) :
        /\ Issue(p, "docker_network_ls", ok, FALSE)
        /\ IF NetworkLsStdout(ok, inp[p].net) # {}
           THEN NetworkDone(p)
           ELSE /\ Goto(p, IF inp[p].subnet # NoSubnet THEN "if_show" ELSE "net_create")
                /\ UNCHANGED result
    /\ UNCHANGED <<envVars, inp, callId, atStart, prev, calls, report, mon>>

(* create_host_interface, lines 61-62 and 67-68: does docknet0 exist *)
IpAddrShow(p) ==
    /\ pc[p] = "if_show"
    /\ Issue(p, "ip_addr_show", IpAddrShowOk, FALSE)
    /\ Goto(p, IF IpAddrShowOk THEN "net_create" ELSE "if_add")
    /\ UNCHANGED <<envVars, inp, result, callId, atStart, prev, calls, report, mon>>

(* line 64: sudo ip link add docknet0 type dummy *)
IpLinkAdd(p) ==
    /\ pc[p] = "if_add"
    /\ \E ok \in BOOLEAN :
        /\ ok => ~iface.exists
        /\ Issue(p, "ip_link_add", ok, TRUE)
        /\ iface' = IF ok THEN [exists |-> TRUE, addrs |-> {}, up |-> FALSE] ELSE iface
        /\ IF run_command(ok) = "return"
           THEN Goto(p, "if_addr") /\ UNCHANGED result
           ELSE Ends(p, "failed")
    /\ UNCHANGED <<networks, containers, images, dirs, inp, callId, atStart, prev, calls, report, mon>>

(* line 65: sudo ip addr add GATEWAY dev docknet0 *)
IpAddrAdd(p) ==
    /\ pc[p] = "if_addr"
    /\ \E ok \in BOOLEAN :
        /\ ok => (iface.exists /\ GatewayOf(inp[p].subnet) \notin iface.addrs)
        /\ Issue(p, "ip_addr_add", ok, TRUE)
        /\ iface' = IF ok THEN [iface EXCEPT !.addrs = @ \cup {GatewayOf(inp[p].subnet)}]
                          ELSE iface
        /\ IF run_command(ok) = "return"
           THEN Goto(p, "if_up") /\ UNCHANGED result
           ELSE Ends(p, "failed")
    /\ UNCHANGED <<networks, containers, images, dirs, inp, callId, atStart, prev, calls, report, mon>>

(* line 66: sudo ip link set docknet0 up *)
IpLinkSetUp(p) ==
    /\ pc[p] = "if_up"
    /\ \E ok \in BOOLEAN :
        /\ ok => iface.exists
        /\ Issue(p, "ip_link_set_up", ok, TRUE)
        /\ iface' = IF ok THEN [iface EXCEPT !.up = TRUE] ELSE iface
        /\ IF run_command(ok) = "return"
           THEN Goto(p, "net_create") /\ UNCHANGED result
           ELSE Ends(p, "failed")
    /\ UNCHANGED <<networks, containers, images, dirs, inp, callId, atStart, prev, calls, report, mon>>

(* lines 80-84: docker network create --driver=bridge [--subnet=S] NAME.   *)
(* The runtime refuses a name or a subnet that a network already has.       *)
NetworkCreate(p) ==
    /\ pc[p] = "net_create"
    /\ \E ok \in BOOLEAN :
        /\ ok => /\ \A n \in networks : n.name # inp[p].net
                 /\ inp[p].subnet # NoSubnet =>
                        \A n \in networks : n.subnet # inp[p].subnet
        /\ Issue(p, "docker_network_create", ok, TRUE)
        /\ networks' = IF ok
                       THEN networks \cup {[name |-> inp[p].net, subnet |-> inp[p].subnet]}
                       ELSE networks
        /\ IF run_command(ok) = "return"
           THEN NetworkDone(p)
           ELSE Ends(p, "failed")
    /\ UNCHANGED <<iface, containers, images, dirs, inp, callId, atStart, prev, calls, report, mon>>

(* remove_existing_container, lines 95-96 and 99-100: the existence query *)
DockerPs(p) ==
    /\ pc[p] = "ps"
    /\ \E ok \in QueryOutcomes(\E c \in containers : c.name = inp[p].cname) :
        /\ Issue(p, "docker_ps", ok, FALSE)
        /\ Goto(p, IF PsStdout(ok, inp[p].cname) # {} THEN "rm" ELSE "run")
    /\ UNCHANGED <<envVars, inp, result, callId, atStart, prev, calls, report, mon>>

(* line 98: docker rm -f NAME *)
DockerRm(p) ==
    /\ pc[p] = "rm"
    /\ \E ok \in BOOLEAN :
        /\ Issue(p, "docker_rm", ok, TRUE)
        /\ containers' = IF ok THEN {c \in containers : c.name # inp[p].cname}
                               ELSE containers
        /\ IF run_command(ok) = "return"
           THEN Goto(p, "run") /\ UNCHANGED result
           ELSE Ends(p, "failed")
    /\ UNCHANGED <<networks, iface, images, dirs, inp, callId, atStart, prev, calls, report, mon>>

(* lines 147-177: draw the ports, docker run -d --name NAME ...            *)
(* The runtime refuses a name in use, an unknown network or image.  The     *)
(* four draws of lines 147-150 touch nothing outside the process; they are  *)
(* logged as one entry before the command of line 177.                      *)
DockerRun(p) ==
    /\ pc[p] = "run"
    /\ \E ok \in BOOLEAN, ports \in PortDraws :
        /\ ok => /\ \A c \in containers : c.name # inp[p].cname
                 /\ \E n \in networks : n.name = inp[p].net
                 /\ ImageTag(inp[p].plan) \in images
        /\ log' = [log EXCEPT ![p] = Append(Append(@, Entry("random_port", TRUE, FALSE)),
                                            Entry("docker_run", ok, TRUE))]
        /\ containers' = IF ok
                         THEN containers \cup {ContainerSpec(inp[p], callId[p], ports)}
                         ELSE containers
        /\ IF run_command(ok) = "return"
           THEN /\ Ends(p, "created")
                /\ report' = [report EXCEPT ![p] = Report(inp[p], callId[p], ports)]
           ELSE /\ Ends(p, "failed")
                /\ UNCHANGED report
    /\ UNCHANGED <<networks, iface, images, dirs, inp, callId, atStart, prev, calls, mon>>

----------------------------------------------------------------------------
Init ==
    /\ networks = {}
    /\ iface = [exists |-> FALSE, addrs |-> {}, up |-> FALSE]
    /\ containers = {}
    /\ images = {}
    /\ dirs = {}
    /\ pc = [p \in Procs |-> "idle"]
    /\ inp = [p \in Procs |-> NoInput]
    /\ log = [p \in Procs |-> << >>]
    /\ result = [p \in Procs |-> "none"]
    /\ callId = [p \in Procs |-> 0]
    /\ atStart = [p \in Procs |-> [net |-> FALSE, name |-> FALSE]]
    /\ prev = NoPrev
    /\ calls = 0
    /\ report = [p \in Procs |-> NoReport]
    /\ mon = NoMon

(* One operator, one call after the other *)
Next ==
    \/ \E p \in SeqProcs : Launch(p)
    \/ \E p \in SeqProcs : Provision(p)
    \/ \E p \in SeqProcs : BuildImage(p)
    \/ \E p \in SeqProcs : MakeDirs(p)
    \/ \E p \in SeqProcs : NetworkLs(p)
    \/ \E p \in SeqProcs : IpAddrShow(p)
    \/ \E p \in SeqProcs : IpLinkAdd(p)
    \/ \E p \in SeqProcs : IpAddrAdd(p)
    \/ \E p \in SeqProcs : IpLinkSetUp(p)
    \/ \E p \in SeqProcs : NetworkCreate(p)
    \/ \E p \in SeqProcs : DockerPs(p)
    \/ \E p \in SeqProcs : DockerRm(p)
    \/ \E p \in SeqProcs : DockerRun(p)

Spec == Init /\ [][Next]_vars

----------------------------------------------------------------------------
(* Two operators provisioning at the same time.  Each process is one run of *)
(* the script (lines 211-212), which calls create_container once; the       *)
(* second operator types the network name and the instance name the first   *)
(* one typed.  The processes share the runtime, the host interface and the  *)
(* filesystem, and nothing orders their commands.                           *)
SameNames(p) ==
    \A q \in Procs \ {p} :
        inp[q].op # "none" => (inp'[p].net = inp[q].net /\ inp'[p].cname = inp[q].cname)

LaunchOnce(p) ==
    /\ callId[p] = 0
    /\ Launch(p)
    /\ SameNames(p)

NextRace ==
    \/ \E p \in Procs : LaunchOnce(p)
    \/ \E p \in Procs : BuildImage(p)
    \/ \E p \in Procs : MakeDirs(p)
    \/ \E p \in Procs : NetworkLs(p)
    \/ \E p \in Procs : IpAddrShow(p)
    \/ \E p \in Procs : IpLinkAdd(p)
    \/ \E p \in Procs : IpAddrAdd(p)
    \/ \E p \in Procs : IpLinkSetUp(p)
    \/ \E p \in Procs : NetworkCreate(p)
    \/ \E p \in Procs : DockerPs(p)
    \/ \E p \in Procs : DockerRm(p)
    \/ \E p \in Procs : DockerRun(p)

SpecRace == Init /\ [][NextRace]_vars

----------------------------------------------------------------------------
(* Stats collector: monitor.py, collect_container_stats, lines 35-97.       *)
(*                                                                          *)
(* An instance as the runtime client presents it:                           *)
(*   id, name, status    the listing's fields                               *)
(*   statsRaises         c.stats(stream=False) raises (the instance is gone)*)
(*   stats               the counter snapshot c.stats returns               *)
(*   ports               c.attrs["NetworkSettings"]["Ports"]                *)
(* Percentages are kept in hundredths of a percent, the precision of        *)
(* round(x, 2); the arithmetic before the rounding is exact.                *)

MaxListing == 2        \* instances the runtime holds when the collector runs
MaxPorts == 3          \* entries of one instance's port metadata

IdLen == 12            \* c.id[:12]

(* c.id[:12], lines 85 and 96 *)
ShortId(id) == SubSeq(id, 1, IF Len(id) < IdLen THEN Len(id) ELSE IdLen)

(* int(s), line 76, on a string given as its characters: an optional sign   *)
(* and at least one decimal digit; anything else raises ValueError.         *)
Digits == <<"0", "1", "2", "3", "4", "5", "6", "7", "8", "9">>

IsDigit(ch) == \E d \in 1..10 : Digits[d] = ch

DigitVal(ch) == (CHOOSE d \in 1..10 : Digits[d] = ch) - 1

RECURSIVE DecimalVal(_)
DecimalVal(chars) ==
    IF chars = << >> THEN 0
    ELSE 10 * DecimalVal(SubSeq(chars, 1, Len(chars) - 1)) + DigitVal(chars[Len(chars)])

ParseInt(chars) ==
    LET signed == chars # << >> /\ chars[1] \in {"+", "-"}
        body   == IF signed THEN Tail(chars) ELSE chars
        valid  == body # << >> /\ \A k \in 1..Len(body) : IsDigit(body[k])
    IN  IF ~valid THEN [ok |-> FALSE, val |-> 0]
        ELSE [ok |-> TRUE,
              val |-> IF signed /\ chars[1] = "-" THEN 0 - DecimalVal(body)
                                                  ELSE DecimalVal(body)]

(* round(x, 2) of x = num/den (den > 0), in hundredths, ties to even *)
RoundHundredths(num, den) ==
    LET n == num * 100
        f == n \div den
        r == n - f * den
    IN  IF 2 * r < den THEN f
        ELSE IF 2 * r > den THEN f + 1
        ELSE IF f % 2 = 0 THEN f ELSE f + 1

IsRunningAlways(c) == TRUE

(* line 47: c.status == 'running' *)
IsRunning(c) == c.status = "running"

OnlineCpusReportedOnly(cs) == cs.online

(* line 56: online_cpus or len(percpu_usage) or 1.  online = 0 stands for   *)
(* a missing, None or zero "online_cpus"; percpu = 0 for a missing or empty *)
(* "percpu_usage" list.                                                     *)
OnlineCpus(cs) ==
    IF cs.online # 0 THEN cs.online
    ELSE IF cs.percpu # 0 THEN cs.percpu
    ELSE 1

(* lines 53-54: the cpu_usage / total_usage lookups raise KeyError when     *)
(* both snapshots are non-empty and one lacks the key                       *)
CpuKeyError(st) ==
    st.cpu.present /\ st.precpu.present /\ ~(st.cpu.hasUsage /\ st.precpu.hasUsage)

(* lines 50-58: cpu_percent as the fraction [num, den] *)
CpuPercent(st) ==
    LET cpu_delta        == st.cpu.total - st.precpu.total
        system_cpu_delta == st.cpu.system - st.precpu.system
        online_cpus      == OnlineCpus(st.cpu)
    IN  IF st.cpu.present /\ st.precpu.present
           /\ system_cpu_delta > 0 /\ online_cpus > 0
        THEN [num |-> cpu_delta * online_cpus * 100, den |-> system_cpu_delta]
        ELSE [num |-> 0, den |-> 1]

(* lines 59-61 *)
MemUsage(st) == IF st.mem.hasUsage THEN st.mem.usage ELSE 0

MemLimit(st) == IF st.mem.hasLimit THEN st.mem.limit ELSE 1

MemPercent(st) ==
    IF MemLimit(st) # 0
    THEN [num |-> MemUsage(st) * 100, den |-> MemLimit(st)]
    ELSE [num |-> 0, den |-> 1]

(* lines 74-79: one entry of the Ports dictionary.  The result is the       *)
(* sequence of strings the entry adds to the list: one or none.             *)
PortNames == <<"22/tcp", "80/tcp", "443/tcp", "3306/tcp">>

PortItem(name, binding) ==
    IF binding.kind = "null" \/ binding.items = << >>
    THEN << >>                                   \* "if port_binding" is false
    ELSE LET first == binding.items[1]
         IN  IF ~first.hasHostPort THEN << >>    \* KeyError, swallowed
             ELSE LET host_port == ParseInt(first.HostPort)
                  IN  IF host_port.ok THEN << <<name, host_port.val>> >>
                                      ELSE << >> \* ValueError, swallowed

RECURSIVE PortItems(_, _)
PortItems(entries, k) ==
    IF k > Len(entries) THEN << >>
    ELSE PortItem(PortNames[k], entries[k]) \o PortItems(entries, k + 1)

(* lines 71-81.  kind "none": the Ports value is missing, None or an empty  *)
(* dictionary; "dict": a dictionary with entries; "bad": a non-empty value  *)
(* that is no dictionary, whose .items() raises.                            *)
PortsTruthy(ports) == ports.kind = "bad" \/ (ports.kind = "dict" /\ ports.entries # << >>)

PortsRaise(ports) == ports.kind = "bad"

PortList(ports) ==
    IF PortsTruthy(ports) THEN PortItems(ports.entries, 1) ELSE << "N/A" >>

(* One iteration of the loop, lines 46-94: the row, or the exception *)
Iteration(c) ==
    LET running == IsRunning(c)
    IN  IF running /\ c.statsRaises THEN [raised |-> TRUE, queried |-> TRUE]
        ELSE IF running /\ CpuKeyError(c.stats) THEN [raised |-> TRUE, queried |-> TRUE]
        ELSE IF PortsRaise(c.ports) THEN [raised |-> TRUE, queried |-> running]
        ELSE [ raised  |-> FALSE,
               queried |-> running,
               row |-> [ container_id   |-> ShortId(c.id),
                         container_name |-> c.name,
                         status         |-> c.status,
                         cpu  |-> IF running
                                  THEN RoundHundredths(CpuPercent(c.stats).num,
                                                       CpuPercent(c.stats).den)
                                  ELSE 0,
                         mem  |-> IF running
                                  THEN RoundHundredths(MemPercent(c.stats).num,
                                                       MemPercent(c.stats).den)
                                  ELSE 0,
                         mem_usage |-> IF running THEN MemUsage(c.stats) ELSE 0,
                         mem_limit |-> IF running THEN MemLimit(c.stats) ELSE 0,
                         ports     |-> PortList(c.ports) ] ]

ExceptHandlerReraise(acc, c) == [acc EXCEPT !.state = "raised"]

(* lines 95-96: log the error; the loop goes on *)
ExceptHandler(acc, c) == [acc EXCEPT !.errors = Append(@, ShortId(c.id))]

RECURSIVE Loop(_, _)
Loop(cs, acc) ==
    IF cs = << >> \/ acc.state = "raised" THEN acc
    ELSE LET c    == Head(cs)
             it   == Iteration(c)
             acc1 == [acc EXCEPT !.queried = IF it.queried THEN Append(@, c.id) ELSE @]
         IN  Loop(Tail(cs),
                  IF it.raised THEN ExceptHandler(acc1, c)
                  ELSE [acc1 EXCEPT !.rows = Append(@, it.row)])

(* docker_client.containers.list(all=all_containers), line 44.  The call   *)
(* stands outside the loop's try; the model follows the runs in which the   *)
(* listing itself is obtained.                                              *)
Listing(rt, all) == IF all THEN rt ELSE SelectSeq(rt, LAMBDA c : c.status = "running")

(* collect_container_stats(all_containers), lines 35-97 *)
collect_container_stats(client, rt, all) ==
    LET start == [state |-> "running", rows |-> << >>, queried |-> << >>, errors |-> << >>]
        end   == IF ~client THEN start ELSE Loop(Listing(rt, all), start)
    IN  [end EXCEPT !.state = IF @ = "raised" THEN "raised" ELSE "returned"]

----------------------------------------------------------------------------
(* Instances the collector is run on *)

InstanceId(k) == <<k, 0, 7, 7, 7, 7, 7, 7, 7, 7, 7, 7, 9>>    \* 13 characters

CpuS(present, hasUsage, total, system, online, percpu) ==
    [present |-> present, hasUsage |-> hasUsage, total |-> total, system |-> system,
     online |-> online, percpu |-> percpu]

PreS(present, hasUsage, total, system) ==
    [present |-> present, hasUsage |-> hasUsage, total |-> total, system |-> system]

MemS(hasUsage, usage, hasLimit, limit) ==
    [hasUsage |-> hasUsage, usage |-> usage, hasLimit |-> hasLimit, limit |-> limit]

(* cpu delta 200, system delta 1000, 4 CPUs; memory 512 of 1024 *)
StatsPlain ==
    [cpu    |-> CpuS(TRUE, TRUE, 700, 5000, 4, 0),
     precpu |-> PreS(TRUE, TRUE, 500, 4000),
     mem    |-> MemS(TRUE, 512, TRUE, 1024)]

StatsNoUsageKey == [StatsPlain EXCEPT !.cpu.hasUsage = FALSE]

Published(chars) == [kind |-> "list", items |-> << [hasHostPort |-> TRUE, HostPort |-> chars] >>]

NullBinding == [kind |-> "null", items |-> << >>]

BindingInputs ==
    { NullBinding,
      [kind |-> "list", items |-> << >>],
      Published(<<"2", "0", "0", "0", "1">>),
      Published(<<"0", "8", "0">>),
      Published(<< >>),
      Published(<<"8", "x">>),
      [kind |-> "list", items |-> << [hasHostPort |-> FALSE, HostPort |-> << >>] >>],
      [kind |-> "list", items |-> << [hasHostPort |-> TRUE, HostPort |-> <<"4", "4", "3">>],
                                     [hasHostPort |-> TRUE, HostPort |-> <<"4", "4", "4">>] >>] }

PortsNone == [kind |-> "none", entries |-> << >>]
PortsBad  == [kind |-> "bad", entries |-> << >>]
PortsMixed ==
    [kind |-> "dict",
     entries |-> << Published(<<"2", "0", "0", "0", "1">>), Published(<<"8", "x">>),
                    Published(<<"3", "0", "0", "0", "1">>) >>]
PortsUnbound == [kind |-> "dict", entries |-> << NullBinding >>]

Instance(k, name, status, statsRaises, stats, ports) ==
    [id |-> InstanceId(k), name |-> name, status |-> status, statsRaises |-> statsRaises,
     stats |-> stats, ports |-> ports]

(* Instances of the batch runs: position k of the runtime's list *)
BatchInstances(k) ==
    { Instance(k, "web", "running", r, st, po) :
        r \in BOOLEAN, st \in {StatsPlain, StatsNoUsageKey},
        po \in {PortsNone, PortsBad, PortsMixed} }
    \cup
    { Instance(k, "web", "exited", FALSE, StatsPlain, po) :
        po \in {PortsNone, PortsBad, PortsMixed, PortsUnbound} }

RECURSIVE Runtimes(_)
Runtimes(n) ==
    IF n = 0 THEN { << >> }
    ELSE LET shorter == Runtimes(n - 1)
         IN  shorter \cup { Append(rt, c) : rt \in {q \in shorter : Len(q) = n - 1},
                                            c \in BatchInstances(n) }

(* Counter snapshots of the single-instance runs *)
CounterInputs ==
    { [cpu    |-> CpuS(cp, TRUE, ct, cs, on, pc0),
       precpu |-> PreS(pp, TRUE, pt, ps),
       mem    |-> MemS(TRUE, 512, TRUE, 1024)] :
        cp \in BOOLEAN, pp \in BOOLEAN,
        ct \in {0, 200, 500}, pt \in {0, 300},
        cs \in {0, 1000, 1003}, ps \in {0, 1000},
        on \in {0, 1, 4}, pc0 \in {0, 2} }

RECURSIVE PortEntries(_)
PortEntries(n) ==
    IF n = 0 THEN { << >> }
    ELSE LET shorter == PortEntries(n - 1)
         IN  shorter \cup { Append(e, b) : e \in {q \in shorter : Len(q) = n - 1},
                                           b \in BindingInputs }

PortsInputs ==
    { PortsNone, PortsBad } \cup { [kind |-> "dict", entries |-> e] : e \in PortEntries(MaxPorts) }

Finish(out, client, rt, all) ==
    mon' = [state |-> out.state, client |-> client, rt |-> rt, all |-> all,
            rows |-> out.rows, queried |-> out.queried, errors |-> out.errors]

(* A batch run: any runtime contents, with or without a client *)
Collect ==
    /\ mon.state = "off"
    /\ \E client \in BOOLEAN, all \in BOOLEAN, rt \in Runtimes(MaxListing) :
          Finish(collect_container_stats(client, rt, all), client, rt, all)
    /\ UNCHANGED <<envVars, pc, inp, log, result, callId, atStart, prev, calls, report>>

(* A run on one running instance, over the counter snapshots *)
CollectCounters ==
    /\ mon.state = "off"
    /\ \E st \in CounterInputs :
          LET rt == << Instance(1, "web", "running", FALSE, st, PortsNone) >>
          IN  Finish(collect_container_stats(TRUE, rt, TRUE), TRUE, rt, TRUE)
    /\ UNCHANGED <<envVars, pc, inp, log, result, callId, atStart, prev, calls, report>>

(* A run on one instance, over the port metadata *)
CollectPorts ==
    /\ mon.state = "off"
    /\ \E po \in PortsInputs, status \in {"running", "exited"} :
          LET rt == << Instance(1, "web", status, FALSE, StatsPlain, po) >>
          IN  Finish(collect_container_stats(TRUE, rt, TRUE), TRUE, rt, TRUE)
    /\ UNCHANGED <<envVars, pc, inp, log, result, callId, atStart, prev, calls, report>>

(* The script exits; the next run starts afresh *)
MonitorExit ==
    /\ mon.state # "off"
    /\ mon' = NoMon
    /\ UNCHANGED <<envVars, pc, inp, log, result, callId, atStart, prev, calls, report>>

NextMon == Collect \/ MonitorExit

SpecMon == Init /\ [][NextMon]_vars

NextRow == CollectCounters \/ CollectPorts \/ MonitorExit

SpecRow == Init /\ [][NextRow]_vars

----------------------------------------------------------------------------
(* Properties of the provisioning script *)

Named(name) == {c \in containers : c.name = name}

Ended(p) == pc[p] = "idle" /\ callId[p] > 0

ProvisionerCmds == CreationCmds \cup {"docker_network_ls"}

(* C1: Network Provisioner idempotence.  A call of create_docker_network    *)
(* made while a network of that name exists issues no creation command,     *)
(* and of two calls in sequence with the same name and subnet, the first of *)
(* which returned, no creation command is issued by both.                   *)
C1_Idempotent ==
    \A p \in Procs :
        /\ atStart[p].net => Issued(p) \cap CreationCmds = {}
        /\ ( /\ prev.some /\ prev.returned
             /\ prev.net = inp[p].net /\ prev.subnet = inp[p].subnet )
           => prev.cmds \cap Issued(p) = {}

(* C2, as stated: once create_container has ended on a name that an         *)
(* instance of an earlier invocation bore when it began, exactly one        *)
(* instance has that name and it is the one this invocation created, with   *)
(* this invocation's plan limits, network, ports and environment.           *)
BearsConfig(p) ==
    Named(inp[p].cname) =
        { [ id     |-> callId[p],
            name   |-> inp[p].cname,
            cpus   |-> PLANS[inp[p].plan].cpu,
            memory |-> PLANS[inp[p].plan].mem,
            net    |-> inp[p].net,
            volume |-> WebDir(inp[p].cname),
            creds  |-> inp[p].creds,
            ports  |-> report[p].ports,
            image  |-> ImageTag(inp[p].plan) ] }

C2_ForceReplaceAlways ==
    \A p \in Procs :
        (Ended(p) /\ inp[p].op = "launch" /\ atStart[p].name)
            => (PlanInCatalog(inp[p].plan) /\ BearsConfig(p))

(* C2, amended: when an invocation of create_container has run to its end   *)
(* (the instance creation command succeeded), exactly one instance has its  *)
(* name, created by this invocation and bearing its plan limits, network,   *)
(* ports and environment; no instance of an earlier invocation has the name.*)
C2_ForceReplace ==
    \A p \in Procs :
        (Ended(p) /\ inp[p].op = "launch" /\ result[p] = "created")
            => /\ BearsConfig(p)
               /\ report[p].container_id = callId[p]
               /\ report[p].ports \in PortDraws

(* An invocation replaced the instance an earlier one left under its name *)
C2_Witness ==
    \E p \in Procs :
        /\ Ended(p) /\ result[p] = "created" /\ atStart[p].name
        /\ \E k \in 1..Len(log[p]) : log[p][k].cmd = "docker_rm" /\ log[p][k].ok

(* C3: a call of create_container whose plan is not a key of the catalog    *)
(* ends in the step that read it: no command is issued and the runtime,     *)
(* the host interface and the filesystem are left as they were.             *)
C3_UnknownPlanNoEffect ==
    [][ \A p \in Procs :
          ( /\ callId'[p] # callId[p]
            /\ inp'[p].op = "launch"
            /\ inp'[p].plan \notin PlanNames )
          => /\ pc'[p] = "idle"
             /\ result'[p] = "invalid_plan"
             /\ log'[p] = << >>
             /\ UNCHANGED <<networks, iface, containers, images, dirs>> ]_vars

(* An unknown plan was given for the name of an existing instance, with a   *)
(* network that does not exist yet: nothing was touched.                    *)
C3_Witness ==
    \E p \in Procs :
        /\ Ended(p) /\ result[p] = "invalid_plan"
        /\ inp[p].plan \notin PlanNames
        /\ Named(inp[p].cname) # {}
        /\ \A n \in networks : n.name # inp[p].net
        /\ log[p] = << >>

(* C4: in a call of create_container, a command run through run_command    *)
(* that failed is the last thing the call did: the call has ended as        *)
(* failed, nothing was issued after the failed command, and no instance of  *)
(* this call exists.                                                        *)
C4_FailureAborts ==
    \A p \in Procs :
        inp[p].op = "launch" =>
            \A k \in 1..Len(log[p]) :
                (log[p][k].exec /\ ~log[p][k].ok)
                    => /\ k = Len(log[p])
                       /\ pc[p] = "idle"
                       /\ result[p] = "failed"
                       /\ \A c \in containers : c.id # callId[p]

(* The removal of the old instance failed after the network was created *)
C4_Witness ==
    \E p \in Procs :
        /\ inp[p].op = "launch" /\ Len(log[p]) > 0
        /\ log[p][Len(log[p])] = Entry("docker_rm", FALSE, TRUE)
        /\ "docker_network_create" \in Issued(p)
        /\ result[p] = "failed"

(* C5: after a command of the Network Provisioner has failed (the          *)
(* existence query, the interface commands, the network creation) the call  *)
(* issues no further command, and it ends as failed.                        *)
C5_ProvisionerAborts ==
    \A p \in Procs :
        \A k \in 1..Len(log[p]) :
            (log[p][k].cmd \in ProvisionerCmds /\ ~log[p][k].ok)
                => /\ k = Len(log[p])
                   /\ pc[p] = "idle" => result[p] = "failed"

(* C6: whenever a network created with a subnet exists, docknet0 exists and *)
(* carries the gateway address derived from that subnet.                    *)
C6_GatewayInPlace ==
    \A n \in networks :
        n.subnet # NoSubnet
            => (iface.exists /\ GatewayOf(n.subnet) \in iface.addrs)

NetworkCmds == ProvisionerCmds \cup {"ip_addr_show"}

(* The step of section 4.6 a logged command belongs to *)
StepOfContract(cmd) ==
    CASE cmd = "makedirs"                           -> 1
      [] cmd \in NetworkCmds \cup {"docker_build"}  -> 2
      [] cmd \in {"docker_ps", "docker_rm"}         -> 3
      [] cmd = "random_port"                        -> 4
      [] cmd = "docker_run"                         -> 5

(* The step a logged command belongs to, in the order of lines 134-177 *)
StepOfCode(cmd) ==
    CASE cmd = "docker_build"                       -> 1
      [] cmd = "makedirs"                           -> 2
      [] cmd \in NetworkCmds                        -> 3
      [] cmd \in {"docker_ps", "docker_rm"}         -> 4
      [] cmd = "random_port"                        -> 5
      [] cmd = "docker_run"                         -> 6

(* A logged command whose failure raises did not fail.  The existence       *)
(* queries have no checked exit status.                                     *)
Completed(e) == (e.exec \/ e.cmd = "makedirs") => e.ok

(* The commands of a call of create_container, in the order logged, never   *)
(* go back to an earlier step; when a command of a step is issued every     *)
(* earlier step has been entered and every earlier command has completed;   *)
(* a call that ended with the instance created went through all the steps.  *)
StrictOrder(p, StepOf(_), last) ==
    /\ \A k \in 1..Len(log[p]) :
          /\ \A j \in 1..(k - 1) :
                /\ StepOf(log[p][j].cmd) <= StepOf(log[p][k].cmd)
                /\ Completed(log[p][j])
          /\ \A s \in 1..(StepOf(log[p][k].cmd) - 1) :
                \E j \in 1..(k - 1) : StepOf(log[p][j].cmd) = s
    /\ (pc[p] = "idle" /\ result[p] = "created")
          => {StepOf(log[p][k].cmd) : k \in 1..Len(log[p])} = 1..last

(* C11, as stated: in every call of create_container with a valid plan the  *)
(* steps occur strictly in the order of section 4.6: (1) the web-root       *)
(* directory, (2) the network and the image, (3) the removal of a           *)
(* same-named instance, (4) the four ports, (5) the creation command; no    *)
(* step starts before every earlier step has completed.                     *)
C11_ContractOrder ==
    \A p \in Procs :
        (inp[p].op = "launch" /\ PlanInCatalog(inp[p].plan))
            => StrictOrder(p, StepOfContract, 5)

(* C11, amended: the steps occur strictly in the order (1) the image is     *)
(* built, (2) the web-root directory is ensured, (3) the network is         *)
(* resolved, (4) a same-named instance is force-removed, (5) the four ports *)
(* are drawn, (6) the creation command is issued; no step starts before     *)
(* every earlier step has completed.                                        *)
C11_StepOrder ==
    \A p \in Procs :
        (inp[p].op = "launch" /\ PlanInCatalog(inp[p].plan))
            => StrictOrder(p, StepOfCode, 6)

(* A call that went through every step, the host interface and the removal  *)
(* of an older instance included                                            *)
C11_Witness ==
    \E p \in Procs :
        /\ pc[p] = "idle" /\ result[p] = "created"
        /\ {"docker_build", "makedirs", "docker_network_ls", "ip_addr_show",
            "ip_link_add", "ip_addr_add", "ip_link_set_up", "docker_network_create",
            "docker_ps", "docker_rm", "random_port", "docker_run"} = Issued(p)

----------------------------------------------------------------------------
(* Properties of two provisioning processes running at the same time *)

Has(p, cmd, ok) == \E k \in 1..Len(log[p]) : log[p][k].cmd = cmd /\ log[p][k].ok = ok

(* The existence query of create_docker_network succeeded and reported no   *)
(* network of the name: the process went on to the creation branch.         *)
ObservedAbsentNet(p) ==
    /\ Has(p, "docker_network_ls", TRUE)
    /\ \/ pc[p] \in {"if_show", "if_add", "if_addr", "if_up", "net_create"}
       \/ Issued(p) \cap (CreationCmds \cup {"ip_addr_show"}) # {}

(* The existence query of remove_existing_container succeeded and reported  *)
(* no instance of the name: the process went on without a removal.          *)
ObservedAbsentName(p) ==
    /\ Has(p, "docker_ps", TRUE)
    /\ "docker_rm" \notin Issued(p)
    /\ pc[p] = "run" \/ "docker_run" \in Issued(p)

Refused(p) == pc[p] = "idle" /\ result[p] = "failed" /\ \A c \in containers : c.id # callId[p]

(* Both processes saw the resource absent and both issued the creation      *)
(* command for the same name                                                *)
BothCreateNet(p, q) ==
    /\ p # q /\ inp[p].net = inp[q].net
    /\ ObservedAbsentNet(p) /\ ObservedAbsentNet(q)
    /\ "docker_network_create" \in Issued(p) \cap Issued(q)

BothCreateInstance(p, q) ==
    /\ p # q /\ inp[p].cname = inp[q].cname
    /\ ObservedAbsentName(p) /\ ObservedAbsentName(q)
    /\ "docker_run" \in Issued(p) \cap Issued(q)

(* C12: the existence checks are reads followed by an unguarded act.  A     *)
(* process that saw a network or an instance absent read the truth, the     *)
(* resource was not there when the process began, but nothing holds that    *)
(* true until it acts: two processes may both have seen the same name       *)
(* absent and both have issued the creation command for it, and then the    *)
(* runtime alone decides, accepting at most one command and refusing the    *)
(* other, whose call ends as failed; and an instance one process has        *)
(* created exists no longer once the other has removed it and not yet       *)
(* created its own.                                                         *)
C12_CheckThenAct ==
    \A p \in Procs :
        /\ ObservedAbsentNet(p) => ~atStart[p].net
        /\ ObservedAbsentName(p) => ~atStart[p].name
        /\ \A q \in Procs :
              /\ BothCreateNet(p, q) =>
                    /\ ~(Has(p, "docker_network_create", TRUE)
                           /\ Has(q, "docker_network_create", TRUE))
                    /\ Has(p, "docker_network_create", FALSE) => Refused(p)
              /\ BothCreateInstance(p, q) =>
                    /\ ~(Has(p, "docker_run", TRUE) /\ Has(q, "docker_run", TRUE))
                    /\ Has(p, "docker_run", FALSE) => Refused(p)
              /\ ( /\ p # q /\ inp[p].cname = inp[q].cname
                   /\ Has(q, "docker_rm", TRUE) /\ pc[q] = "run" )
                 => Named(inp[p].cname) = {}

(* Both processes saw the network absent and both issued "docker network    *)
(* create" for it: one created it, the other was refused.                   *)
C12_Witness ==
    \E p \in Procs, q \in Procs :
        /\ BothCreateNet(p, q)
        /\ Has(p, "docker_network_create", TRUE) /\ Has(q, "docker_network_create", FALSE)
        /\ \E n \in networks : n.name = inp[p].net
        /\ Refused(q)

(* Both processes saw the instance name free and both issued "docker run"   *)
(* for it                                                                   *)
C12_WitnessInstance ==
    \E p \in Procs, q \in Procs :
        /\ BothCreateInstance(p, q)
        /\ Has(p, "docker_run", TRUE) /\ Has(q, "docker_run", FALSE)
        /\ Refused(q)

(* A process force-removed the instance the other had just created: the     *)
(* name was free when it began, and the other process, which reported the   *)
(* instance as created, has none.                                           *)
C12_WitnessRemoval ==
    \E p \in Procs, q \in Procs :
        /\ p # q /\ inp[p].cname = inp[q].cname
        /\ ~atStart[q].name /\ ~atStart[p].name
        /\ pc[p] = "idle" /\ result[p] = "created"
        /\ Has(q, "docker_rm", TRUE)
        /\ \A c \in containers : c.id # callId[p]

(* With one operator, one call after the other, no creation command for a   *)
(* network is issued while a network of the name exists, unless the         *)
(* existence query itself failed.                                           *)
C12_SequentialNoRace ==
    [][ \A p \in Procs :
          ( /\ "docker_network_create" \in {log'[p][k].cmd : k \in 1..Len(log'[p])}
            /\ "docker_network_create" \notin Issued(p)
            /\ ~Has(p, "docker_network_ls", FALSE) )
          => \A n \in networks : n.name # inp[p].net ]_vars

----------------------------------------------------------------------------
(* Properties of the stats collector *)

Returned == mon.state = "returned"

Listed == IF mon.client THEN Listing(mon.rt, mon.all) ELSE << >>

RowsOf(c) == {k \in 1..Len(mon.rows) : mon.rows[k].container_id = ShortId(c.id)}

InstancesOf(seq) == {seq[k] : k \in 1..Len(seq)}

Abs(x) == IF x < 0 THEN 0 - x ELSE x

CpuDelta(c) == c.stats.cpu.total - c.stats.precpu.total

SystemCpuDelta(c) == c.stats.cpu.system - c.stats.precpu.system

(* The online CPU count as the claim words it *)
OnlineCpuCount(c) ==
    CASE c.stats.cpu.online > 0 -> c.stats.cpu.online
      [] c.stats.cpu.online = 0 /\ c.stats.cpu.percpu > 0 -> c.stats.cpu.percpu
      [] OTHER -> 1

BothSnapshots(c) == c.stats.cpu.present /\ c.stats.precpu.present

(* C7, as stated: the reported CPU percentage of a running instance equals  *)
(* (cpu_delta / system_cpu_delta) * online_cpu_count * 100 when             *)
(* system_cpu_delta > 0, and is 0.0 when system_cpu_delta <= 0.             *)
C7_CpuPercentExact ==
    Returned =>
        \A c \in InstancesOf(Listed) : \A k \in RowsOf(c) :
            (c.status = "running" /\ BothSnapshots(c)) =>
                IF SystemCpuDelta(c) > 0
                THEN mon.rows[k].cpu * SystemCpuDelta(c)
                        = CpuDelta(c) * OnlineCpuCount(c) * 100 * 100
                ELSE mon.rows[k].cpu = 0

(* C7, amended: the reported CPU percentage of a running instance is        *)
(* (cpu_delta / system_cpu_delta) * online_cpu_count * 100 rounded to two   *)
(* decimal places when both snapshots are non-empty and                     *)
(* system_cpu_delta > 0, and 0.0 otherwise; a row is reported.              *)
C7_CpuPercentRounded ==
    Returned =>
        \A c \in InstancesOf(Listed) :
            (c.status = "running" /\ ~c.statsRaises /\ ~CpuKeyError(c.stats)
                                  /\ c.ports.kind # "bad") =>
                /\ RowsOf(c) # {}
                /\ \A k \in RowsOf(c) :
                     IF BothSnapshots(c) /\ SystemCpuDelta(c) > 0
                     THEN 2 * Abs(mon.rows[k].cpu * SystemCpuDelta(c)
                                    - CpuDelta(c) * OnlineCpuCount(c) * 100 * 100)
                            <= SystemCpuDelta(c)
                     ELSE mon.rows[k].cpu = 0

(* 200 / 3 on two cores counted from the per-core list: 13333.33 *)
C7_Witness ==
    /\ Returned
    /\ \E c \in InstancesOf(Listed) : \E k \in RowsOf(c) :
          /\ c.status = "running" /\ BothSnapshots(c)
          /\ CpuDelta(c) = 200 /\ SystemCpuDelta(c) = 3
          /\ c.stats.cpu.online = 0 /\ c.stats.cpu.percpu = 2
          /\ mon.rows[k].cpu = 1333333

(* C8: an instance that is not running is never asked for live stats, any   *)
(* row for it reports zero CPU%, memory%, memory usage and memory limit,    *)
(* a row is reported when it is listed and its metadata can be read, and    *)
(* the collector returns.                                                   *)
C8_NonRunningZero ==
    mon.state # "off" =>
        /\ Returned
        /\ \A c \in InstancesOf(mon.rt) :
             c.status # "running" =>
                /\ \A q \in 1..Len(mon.queried) : mon.queried[q] # c.id
                /\ \A k \in RowsOf(c) :
                     /\ mon.rows[k].cpu = 0 /\ mon.rows[k].mem = 0
                     /\ mon.rows[k].mem_usage = 0 /\ mon.rows[k].mem_limit = 0
                /\ (c \in InstancesOf(Listed) /\ c.ports.kind # "bad") => RowsOf(c) # {}

(* A stopped instance is reported with zeros next to a running one that is  *)
(* reported with its counters.                                              *)
C8_Witness ==
    /\ Returned
    /\ \E c \in InstancesOf(Listed), d \in InstancesOf(Listed) :
          /\ c.status = "exited" /\ d.status = "running"
          /\ \E k \in RowsOf(c) : mon.rows[k].cpu = 0 /\ mon.rows[k].mem_limit = 0
          /\ \E k \in RowsOf(d) : mon.rows[k].cpu = 8000 /\ mon.rows[k].mem = 5000
          /\ mon.queried = << d.id >>

(* Whether collecting an instance raises, from the instance alone *)
Faulty(c) ==
    \/ c.status = "running" /\ c.statsRaises
    \/ c.status = "running" /\ BothSnapshots(c)
          /\ ~(c.stats.cpu.hasUsage /\ c.stats.precpu.hasUsage)
    \/ c.ports.kind = "bad"

RowIds == [k \in 1..Len(mon.rows) |-> mon.rows[k].container_id]

SoundIds ==
    LET sound == SelectSeq(Listed, LAMBDA c : ~Faulty(c))
    IN  [k \in 1..Len(sound) |-> ShortId(sound[k].id)]

(* C9: whatever instances raise, the collector returns, with one row for    *)
(* every listed instance whose collection did not raise, in listing order,  *)
(* and none for the others.                                                 *)
C9_FailureIsolation ==
    mon.state # "off" => (Returned /\ RowIds = SoundIds)

(* The first instance raised and the second was still reported *)
C9_Witness ==
    /\ Returned
    /\ Len(Listed) = 2
    /\ Faulty(Listed[1]) /\ ~Faulty(Listed[2])
    /\ RowIds = << ShortId(Listed[2].id) >>
    /\ mon.errors = << ShortId(Listed[1].id) >>

(* An entry with a binding whose first host port reads as an integer *)
HasBinding(b) == b.kind = "list" /\ b.items # << >>

WellFormed(b) ==
    HasBinding(b) /\ b.items[1].hasHostPort /\ ParseInt(b.items[1].HostPort).ok

RECURSIVE WellFormedItems(_, _)
WellFormedItems(entries, k) ==
    IF k > Len(entries) THEN << >>
    ELSE (IF WellFormed(entries[k])
          THEN << <<PortNames[k], ParseInt(entries[k].items[1].HostPort).val>> >>
          ELSE << >>)
         \o WellFormedItems(entries, k + 1)

(* C10, first part: malformed entries are skipped, the well-formed ones     *)
(* are listed in metadata order and the row is produced.                    *)
C10_MalformedSkipped ==
    Returned =>
        \A c \in InstancesOf(Listed) :
            (c.ports.kind = "dict" /\ \E e \in 1..Len(c.ports.entries) :
                                          HasBinding(c.ports.entries[e]))
            => /\ RowsOf(c) # {}
               /\ \A k \in RowsOf(c) :
                     mon.rows[k].ports = WellFormedItems(c.ports.entries, 1)

(* C10, second part: an instance none of whose entries has a binding is     *)
(* reported as "N/A".                                                       *)
C10_NoBindingsNA ==
    Returned =>
        \A c \in InstancesOf(Listed) :
            (c.ports.kind # "bad" /\ \A e \in 1..Len(c.ports.entries) :
                                        ~HasBinding(c.ports.entries[e]))
            => /\ RowsOf(c) # {}
               /\ \A k \in RowsOf(c) : mon.rows[k].ports = << "N/A" >>

(* C10: malformed port bindings are skipped and an instance with no         *)
(* configured bindings is reported as "N/A".                                *)
C10_PortList == C10_MalformedSkipped /\ C10_NoBindingsNA

====
